---- MODULE Spec2Model ----
(***************************************************************************)
(* Model of the attendance pipeline of worktime-codex:                     *)
(*   src/attendance.py       parse_time, parse_date, normalize_interval,   *)
(*                           _flatten_breaks, _ensure_float,               *)
(*                           calc_work_hours, build_daily_summary,         *)
(*                           build_weekly_summary, build_monthly_summary,  *)
(*                           save_daily_records, load_daily_records,       *)
(*                           _handle_record_single, _handle_import_csv     *)
(*   src/io_csv.py           load_csv_records                              *)
(*   src/pandas/__init__.py  DataFrame (rows as dictionaries, columns)     *)
(*                                                                         *)
(* State: frame is the caller's DataFrame, result the outcome of the last  *)
(* operation, store the daily-record file attendance_daily.csv.            *)
(* Spec and SpecCalc run the four pure operations on a frame, SpecDaily    *)
(* the daily summary through the file, SpecStore the menu handlers.        *)
(*                                                                         *)
(* Conventions.                                                            *)
(*  - A Python str is a sequence of one-character strings, so that strip,  *)
(*    split, strptime and float() are computed character by character.     *)
(*  - A Python float is a tagged value: finite (an exact number of units   *)
(*    of 1/6000 hour, so that minutes, hundredths and thousandths of an    *)
(*    hour are all integers), nan, inf or -inf.  Finite arithmetic is      *)
(*    exact; binary rounding noise of IEEE doubles is not modelled.        *)
(*  - A datetime.date is its proleptic Gregorian ordinal (date.toordinal). *)
(*  - A Python value is the pair <<type, payload>> (PyNone, PyNum, ...).   *)
(*  - The definitions commented "gone wrong" are faulty variants of the    *)
(*    definition that follows them; the properties at the end must tell    *)
(*    the code from them.                                                  *)
(*  - A DataFrame is [columns, rows]; a row is a function from its keys    *)
(*    (a dict).  All rows of one frame have the frame's columns as keys.   *)
(***************************************************************************)
EXTENDS Integers, Sequences, FiniteSets, TLC

VARIABLES frame, result, store

vars == <<frame, result, store>>

\* Op applied to the value of v, which is evaluated exactly once (a local
\* variable of the code: assigned once, read many times)
Bind(v, Op(_)) == CHOOSE r \in {Op(x) : x \in {v}} : TRUE

(***************************************************************************)
(* Floats                                                                  *)
(***************************************************************************)
UnitsPerMinute == 100
MinutesPerHour == 60
UnitsPerHour == UnitsPerMinute * MinutesPerHour
\* one hundredth of an hour, the grain of round(x, 2)
UnitsPerCenti == UnitsPerHour \div 100
MinutesPerDay == 24 * MinutesPerHour

Fin(u) == [k |-> "fin", u |-> u]
NaN == [k |-> "nan", u |-> 0]
PosInf == [k |-> "inf", u |-> 0]
NegInf == [k |-> "ninf", u |-> 0]
Hours(h) == Fin(h * UnitsPerHour)

FNeg(x) ==
    Bind(x, LAMBDA a :
        CASE a.k = "fin" -> Fin(0 - a.u)
          [] a.k = "inf" -> NegInf
          [] a.k = "ninf" -> PosInf
          [] OTHER -> NaN)

FAdd(x, y) ==
    Bind(x, LAMBDA a : Bind(y, LAMBDA b :
        IF a.k = "nan" \/ b.k = "nan" THEN NaN
        ELSE IF a.k = "fin" /\ b.k = "fin" THEN Fin(a.u + b.u)
        ELSE IF a.k = "fin" THEN b
        ELSE IF b.k = "fin" THEN a
        ELSE IF a.k = b.k THEN a
        ELSE NaN))

FSub(a, b) == FAdd(a, FNeg(b))

\* a < b on floats: every comparison with nan is False
FLt(x, y) ==
    Bind(x, LAMBDA a : Bind(y, LAMBDA b :
        IF a.k = "nan" \/ b.k = "nan" THEN FALSE
        ELSE IF a.k = "fin" /\ b.k = "fin" THEN a.u < b.u
        ELSE IF a.k = "ninf" THEN b.k # "ninf"
        ELSE IF a.k = "inf" THEN FALSE
        ELSE b.k = "inf"))

FGt(a, b) == FLt(b, a)

\* nearest multiple of q, ties to the even multiple (round-half-even)
RoundTo(units, q) ==
    Bind(units, LAMBDA u :
        IF 2 * (u % q) < q THEN (u \div q) * q
        ELSE IF 2 * (u % q) > q THEN ((u \div q) + 1) * q
        ELSE IF (u \div q) % 2 = 0 THEN (u \div q) * q
        ELSE ((u \div q) + 1) * q)

\* round(x, 2)
Round2(x) ==
    Bind(x, LAMBDA a : IF a.k = "fin" THEN Fin(RoundTo(a.u, UnitsPerCenti)) ELSE a)

RECURSIVE FSum(_)
\* sum(breaks_list): left to right from 0
FSum(floats) ==
    Bind(floats, LAMBDA xs :
        IF xs = <<>> THEN Fin(0)
        ELSE FAdd(FSum(SubSeq(xs, 1, Len(xs) - 1)), xs[Len(xs)]))

(***************************************************************************)
(* Python values                                                           *)
(***************************************************************************)
PyNone == <<"None", 0>>
PyNum(x) == <<"num", x>>
PyBool(b) == <<"bool", b>>
PyStr(s) == <<"str", s>>
PyList(xs) == <<"list", xs>>
PyDict == <<"dict", 0>>
PyDate(ord) == <<"date", ord>>
PyInt(n) == <<"int", n>>

\* type(value) and the payload of a value
TypeOf(value) == value[1]
ValueOf(value) == value[2]

(***************************************************************************)
(* Strings                                                                 *)
(***************************************************************************)
Whitespace == {" "}

DigitVal ==
    ("0" :> 0) @@ ("1" :> 1) @@ ("2" :> 2) @@ ("3" :> 3) @@ ("4" :> 4) @@
    ("5" :> 5) @@ ("6" :> 6) @@ ("7" :> 7) @@ ("8" :> 8) @@ ("9" :> 9)

DigitChar == <<"0", "1", "2", "3", "4", "5", "6", "7", "8", "9">>

IsDigits(text) ==
    Bind(text, LAMBDA p : p # <<>> /\ \A i \in 1..Len(p) : p[i] \in DOMAIN DigitVal)

RECURSIVE DecVal(_)
DecVal(text) ==
    Bind(text, LAMBDA p :
        IF p = <<>> THEN 0
        ELSE DecVal(SubSeq(p, 1, Len(p) - 1)) * 10 + DigitVal[p[Len(p)]])

RECURSIVE LStrip(_)
LStrip(text) ==
    Bind(text, LAMBDA s :
        IF s # <<>> /\ Head(s) \in Whitespace THEN LStrip(Tail(s)) ELSE s)

RECURSIVE RStrip(_)
RStrip(text) ==
    Bind(text, LAMBDA s :
        IF s # <<>> /\ s[Len(s)] \in Whitespace
        THEN RStrip(SubSeq(s, 1, Len(s) - 1))
        ELSE s)

\* str.strip()
Strip(s) == RStrip(LStrip(s))

RECURSIVE Split(_, _)
\* str.split on any of the one-character separators seps
Split(text, seps) ==
    Bind(text, LAMBDA s :
    Bind({i \in 1..Len(s) : s[i] \in seps}, LAMBDA hits :
        IF hits = {} THEN <<s>>
        ELSE Bind(CHOOSE j \in hits : \A h \in hits : j <= h, LAMBDA i :
                <<SubSeq(s, 1, i - 1)>> \o Split(SubSeq(s, i + 1, Len(s)), seps))))

\* two decimal digits, zero padded (strftime %H, %M, %d, %m)
Pad2(number) ==
    Bind(number, LAMBDA n : <<DigitChar[(n \div 10) + 1], DigitChar[(n % 10) + 1]>>)

\* str(value) for the values whose text the code reads
StrOf(value) ==
    Bind(value, LAMBDA v :
        CASE TypeOf(v) = "str" -> ValueOf(v)
          [] TypeOf(v) = "None" -> <<"N", "o", "n", "e">>
          [] TypeOf(v) = "bool" -> IF ValueOf(v) THEN <<"T", "r", "u", "e">> ELSE <<"F", "a", "l", "s", "e">>
          [] OTHER -> <<"{", "}">>)

LowerChar ==
    ("N" :> "n") @@ ("A" :> "a") @@ ("I" :> "i") @@ ("F" :> "f")

\* str.lower() over the letters float() reads
Lower(text) ==
    Bind(text, LAMBDA s :
        [i \in 1..Len(s) |-> IF s[i] \in DOMAIN LowerChar THEN LowerChar[s[i]] ELSE s[i]])

RECURSIVE Pow10(_)
Pow10(n) == IF n = 0 THEN 1 ELSE 10 * Pow10(n - 1)

\* the value, in units, of the decimal numeral ip "." fp (fp may be empty)
DecimalUnits(ip, frac) ==
    Bind(frac, LAMBDA fp :
        DecVal(ip) * UnitsPerHour + (DecVal(fp) * UnitsPerHour) \div Pow10(Len(fp)))

\* whether ip "." fp, or ip alone, spells a decimal numeral float() accepts
IsNumeral(parts) ==
    /\ Len(parts) \in {1, 2}
    /\ parts[1] = <<>> \/ IsDigits(parts[1])
    /\ Len(parts) = 2 => (parts[2] = <<>> \/ IsDigits(parts[2]))
    /\ parts[1] # <<>> \/ (Len(parts) = 2 /\ parts[2] # <<>>)

\* the magnitude float() reads from an unsigned body
ParseMagnitude(text) ==
    Bind(text, LAMBDA body :
    Bind(Lower(body), LAMBDA low :
    Bind(Split(body, {"."}), LAMBDA parts :
        IF low = <<"n", "a", "n">> THEN [ok |-> TRUE, val |-> NaN]
        ELSE IF low = <<"i", "n", "f">> THEN [ok |-> TRUE, val |-> PosInf]
        ELSE IF IsNumeral(parts)
        THEN [ok |-> TRUE,
              val |-> Fin(DecimalUnits(parts[1], IF Len(parts) = 2 THEN parts[2] ELSE <<>>))]
        ELSE [ok |-> FALSE, val |-> NaN])))

\* float(text) for a str: surrounding whitespace dropped, an optional sign,
\* then nan, inf (any case) or a decimal numeral; anything else is a
\* ValueError (ok = FALSE).  Exponents and underscores are outside the
\* modelled alphabet.
ParseFloat(text) ==
    Bind(Strip(text), LAMBDA s :
        IF s # <<>> /\ Head(s) = "-"
        THEN Bind(ParseMagnitude(Tail(s)), LAMBDA m : [ok |-> m.ok, val |-> FNeg(m.val)])
        ELSE IF s # <<>> /\ Head(s) = "+" THEN ParseMagnitude(Tail(s))
        ELSE ParseMagnitude(s))

(***************************************************************************)
(* Dates and times (datetime)                                              *)
(***************************************************************************)
MinYear == 1
MaxYear == 9999

IsLeap(y) == y % 4 = 0 /\ (y % 100 # 0 \/ y % 400 = 0)

DaysInMonth(y, m) ==
    IF m = 2 THEN (IF IsLeap(y) THEN 29 ELSE 28)
    ELSE IF m \in {4, 6, 9, 11} THEN 30
    ELSE 31

DaysBeforeYear(y) ==
    LET p == y - 1 IN p * 365 + p \div 4 - p \div 100 + p \div 400

RECURSIVE DaysBeforeMonth(_, _)
DaysBeforeMonth(y, m) ==
    IF m = 1 THEN 0 ELSE DaysBeforeMonth(y, m - 1) + DaysInMonth(y, m - 1)

\* date(y, m, d).toordinal()
Ymd2Ord(y, m, d) == DaysBeforeYear(y) + DaysBeforeMonth(y, m) + d

\* date.max.toordinal()
MaxOrdinal == Ymd2Ord(MaxYear, 12, 31)

\* date.weekday(): Monday is 0
Weekday(ord) == (ord + 6) % 7

\* a strptime field of one or two digits with a value in lo..hi
IsField(text, lo, hi) ==
    Bind(text, LAMBDA p :
        IsDigits(p) /\ Len(p) \in {1, 2} /\ DecVal(p) >= lo /\ DecVal(p) <= hi)

\* strptime(text, "%H:%M"): hour 2[0-3]|[0-1]\d|\d, minute [0-5]\d|\d
StrptimeHM(text) ==
    Bind(Split(text, {":"}), LAMBDA parts :
        IF Len(parts) = 2 /\ IsField(parts[1], 0, 23) /\ IsField(parts[2], 0, 59)
        THEN [ok |-> TRUE, h |-> DecVal(parts[1]), m |-> DecVal(parts[2])]
        ELSE [ok |-> FALSE, h |-> 0, m |-> 0])

\* the calendar's own checks on year, month, day (ValueError otherwise)
IsCalendarDay(y, m, d) == y >= MinYear /\ y <= MaxYear /\ d <= DaysInMonth(y, m)

\* strptime(text, "%d/%m/%Y").date(): day 1-31 and month 1-12 in one or two
\* digits, year in exactly four, then the calendar's own range checks
StrptimeDMY(text) ==
    Bind(Split(text, {"/"}), LAMBDA parts :
        IF /\ Len(parts) = 3
           /\ IsField(parts[1], 1, 31)
           /\ IsField(parts[2], 1, 12)
           /\ IsDigits(parts[3]) /\ Len(parts[3]) = 4
           /\ IsCalendarDay(DecVal(parts[3]), DecVal(parts[2]), DecVal(parts[1]))
        THEN [ok |-> TRUE,
              ord |-> Ymd2Ord(DecVal(parts[3]), DecVal(parts[2]), DecVal(parts[1]))]
        ELSE [ok |-> FALSE, ord |-> 0])

(***************************************************************************)
(* Outcomes of a call: a returned value or a raised exception              *)
(***************************************************************************)
ValidationError == "AttendanceValidationError"

Raise(kind, msg) == [ok |-> FALSE, kind |-> kind, msg |-> msg, val |-> <<>>]
Return(v) == [ok |-> TRUE, kind |-> "", msg |-> "", val |-> v]

\* parse_time: the hour and minute of the parsed time
parse_time(time_str) ==
    Bind(StrptimeHM(Strip(time_str)), LAMBDA p :
        IF p.ok THEN Return([h |-> p.h, m |-> p.m])
        ELSE Raise(ValidationError, "Invalid time format"))

\* parse_date: the ordinal of the parsed date
parse_date(date_str) ==
    Bind(StrptimeDMY(Strip(date_str)), LAMBDA p :
        IF p.ok THEN Return(p.ord)
        ELSE Raise(ValidationError, "Invalid date format"))

\* datetime.combine(work_date, t): a datetime is [ord, min]
Combine(ord, t) == [ord |-> ord, min |-> t.h * MinutesPerHour + t.m]

\* a <= b on datetimes
DtLe(a, b) == a.ord < b.ord \/ (a.ord = b.ord /\ a.min <= b.min)

\* (b - a) in minutes
DtDiffMinutes(a, b) == (b.ord - a.ord) * MinutesPerDay + (b.min - a.min)

\* normalize_interval gone wrong: an end equal to the start is left on its day
RollEndOnlyBefore(start, end) ==
    IF DtLe(end, start) /\ end # start THEN [end EXCEPT !.ord = @ + 1] ELSE end

\* line 81-82: the end, a day later when it is not after the start
RollEnd(start, end) == IF DtLe(end, start) THEN [end EXCEPT !.ord = @ + 1] ELSE end

\* normalize_interval: end + timedelta(days=1) past date.max is an
\* OverflowError; Interval.__post_init__ refuses an end before the start
normalize_interval(start, end) ==
    Bind(RollEnd(start, end), LAMBDA rolled :
        IF rolled.ord > MaxOrdinal
        THEN Raise("OverflowError", "date value out of range")
        ELSE IF ~DtLe(start, rolled)
        THEN Raise(ValidationError, "Interval end must be on or after start")
        ELSE Return([start |-> start, end |-> rolled]))

\* dt.strftime("%H:%M")
StrftimeHM(dt) ==
    Pad2(dt.min \div MinutesPerHour) \o <<":">> \o Pad2(dt.min % MinutesPerHour)

(***************************************************************************)
(* json.loads, over the documents the modelled alphabet can spell:         *)
(* a scalar (number, NaN, null, true, false), a flat array of scalars, {}  *)
(***************************************************************************)
\* -?(0|[1-9]\d*)(\.\d+)? of the JSON grammar
IsJsonNumeral(parts) ==
    /\ Len(parts) \in {1, 2}
    /\ IsDigits(parts[1])
    /\ Len(parts[1]) = 1 \/ parts[1][1] # "0"
    /\ Len(parts) = 2 => IsDigits(parts[2])

JsonMagnitude(text) ==
    Bind(Split(text, {"."}), LAMBDA parts :
        IF IsJsonNumeral(parts)
        THEN [ok |-> TRUE,
              val |-> Fin(DecimalUnits(parts[1], IF Len(parts) = 2 THEN parts[2] ELSE <<>>))]
        ELSE [ok |-> FALSE, val |-> NaN])

JsonNumber(text) ==
    Bind(text, LAMBDA tok :
        IF tok # <<>> /\ Head(tok) = "-"
        THEN Bind(JsonMagnitude(Tail(tok)), LAMBDA m :
                [ok |-> m.ok, val |-> PyNum(FNeg(m.val))])
        ELSE Bind(JsonMagnitude(tok), LAMBDA m : [ok |-> m.ok, val |-> PyNum(m.val)]))

JsonScalar(text) ==
    Bind(text, LAMBDA tok :
        IF tok = <<"n", "u", "l", "l">> THEN [ok |-> TRUE, val |-> PyNone]
        ELSE IF tok = <<"t", "r", "u", "e">> THEN [ok |-> TRUE, val |-> PyBool(TRUE)]
        ELSE IF tok = <<"f", "a", "l", "s", "e">> THEN [ok |-> TRUE, val |-> PyBool(FALSE)]
        ELSE IF tok = <<"N", "a", "N">> THEN [ok |-> TRUE, val |-> PyNum(NaN)]
        ELSE JsonNumber(tok))

\* the elements of a flat JSON array, given the text between its brackets
JsonArray(text) ==
    Bind(Strip(text), LAMBDA inner :
        IF inner = <<>> THEN [ok |-> TRUE, val |-> PyList(<<>>)]
        ELSE Bind(Split(inner, {","}), LAMBDA toks :
             Bind([i \in 1..Len(toks) |-> JsonScalar(Strip(toks[i]))], LAMBDA items :
                IF \A i \in 1..Len(items) : items[i].ok
                THEN [ok |-> TRUE, val |-> PyList([i \in 1..Len(items) |-> items[i].val])]
                ELSE [ok |-> FALSE, val |-> PyNone])))

\* ok = FALSE is json.JSONDecodeError
JsonLoads(text) ==
    Bind(text, LAMBDA s :
        IF s = <<"{", "}">> THEN [ok |-> TRUE, val |-> PyDict]
        ELSE IF Len(s) >= 2 /\ s[1] = "[" /\ s[Len(s)] = "]"
        THEN JsonArray(SubSeq(s, 2, Len(s) - 1))
        ELSE JsonScalar(s))

(***************************************************************************)
(* _flatten_breaks                                                         *)
(***************************************************************************)
\* float(item) of the built-in: a number or bool converts, a str is parsed
\* (ValueError), anything else is a TypeError
FloatOf(value) ==
    Bind(value, LAMBDA item :
        CASE TypeOf(item) = "num" -> Return(ValueOf(item))
          [] TypeOf(item) = "bool" -> Return(IF ValueOf(item) THEN Hours(1) ELSE Hours(0))
          [] TypeOf(item) = "int" -> Return(Hours(ValueOf(item)))
          [] TypeOf(item) = "str" ->
                Bind(ParseFloat(ValueOf(item)), LAMBDA p :
                    IF p.ok THEN Return(p.val)
                    ELSE Raise("ValueError", "could not convert string to float"))
          [] OTHER -> Raise("TypeError", "float() argument must be a string or a real number"))

\* lines 118-121: the candidate of one element of a decoded string
StrItemCandidate(value) ==
    Bind(value, LAMBDA item :
        IF TypeOf(item) \in {"num", "bool"} THEN FloatOf(item)
        ELSE FloatOf(PyStr(Strip(StrOf(item)))))

RECURSIVE FlattenItems(_, _, _)
\* the loops of lines 117-124 and 128-132: the first element that does not
\* convert, or is negative, raises; fromStr selects the string branch
FlattenItems(parsed, fromStr, done) ==
    Bind(parsed, LAMBDA items : Bind(done, LAMBDA floats :
        IF items = <<>> THEN Return(floats)
        ELSE Bind(IF fromStr THEN StrItemCandidate(Head(items)) ELSE FloatOf(Head(items)),
                  LAMBDA c :
                IF ~c.ok THEN c
                ELSE IF FLt(c.val, Fin(0))
                THEN Raise(ValidationError, "Break duration cannot be negative")
                ELSE FlattenItems(Tail(items), fromStr, Append(floats, c.val)))))

\* lines 109-115: the elements of the decoded text
ParsedBreaks(text) ==
    Bind(text, LAMBDA cleaned :
    Bind(JsonLoads(cleaned), LAMBDA j :
        IF ~j.ok
        THEN Bind(Split(cleaned, {",", ";"}), LAMBDA split :
                [i \in 1..Len(split) |-> PyStr(Strip(split[i]))])
        ELSE IF TypeOf(j.val) = "list" THEN ValueOf(j.val)
        ELSE <<j.val>>))

_flatten_breaks(breaks) ==
    Bind(breaks, LAMBDA value :
        IF TypeOf(value) = "None" \/ (TypeOf(value) = "num" /\ ValueOf(value).k = "nan") THEN Return(<<>>)
        ELSE IF TypeOf(value) \in {"num", "bool"}
        THEN Bind(FloatOf(value).val, LAMBDA x :
                IF FLt(x, Fin(0))
                THEN Raise(ValidationError, "Break duration cannot be negative")
                ELSE Return(<<x>>))
        ELSE IF TypeOf(value) = "str"
        THEN Bind(Strip(ValueOf(value)), LAMBDA cleaned :
                IF cleaned = <<>> THEN Return(<<>>)
                ELSE FlattenItems(ParsedBreaks(cleaned), TRUE, <<>>))
        ELSE IF TypeOf(value) = "list" THEN FlattenItems(ValueOf(value), FALSE, <<>>)
        ELSE Raise(ValidationError, "Unsupported break representation"))

\* _ensure_float: TypeError and ValueError become a validation error
_ensure_float(value) ==
    Bind(FloatOf(value), LAMBDA f :
        IF f.ok THEN f
        ELSE Raise(ValidationError, "Field 'ot_hours' must be numeric"))

(***************************************************************************)
(* pandas.DataFrame                                                        *)
(***************************************************************************)
\* the columns argument left out
NoColumns == {"<None>"}

\* DataFrame.__init__: without columns the frame has the keys of its first
\* row (none when empty); with columns every row gets the missing ones as None
DataFrame(data, columns) ==
    IF columns = NoColumns
    THEN [columns |-> IF data = <<>> THEN {} ELSE DOMAIN data[1], rows |-> data]
    ELSE [columns |-> columns,
          rows |-> [i \in 1..Len(data) |->
                      [c \in (DOMAIN data[i]) \cup columns |->
                          IF c \in DOMAIN data[i] THEN data[i][c] ELSE PyNone]]]

\* DataFrame.empty
Empty(df) == df.rows = <<>>

\* iterrows gone wrong: the stripped employee_id written back to the row
AfterCallStrippedInPlace(records) ==
    [records EXCEPT !.rows =
        [i \in 1..Len(records.rows) |->
            IF "employee_id" \in DOMAIN records.rows[i]
            THEN [records.rows[i] EXCEPT !["employee_id"] = PyStr(Strip(StrOf(@)))]
            ELSE records.rows[i]]]

\* the frame an operation was given, after the call: iterrows hands out the
\* frame's own rows, which the operations read and never assign to, and the
\* frames they sort and return are built from lists of their own
AfterCall(records) == records

\* _RowProxy.get
Get(row, key, default) == IF key \in DOMAIN row THEN row[key] ELSE default

\* ord(c) of the characters the modelled strings use
CharCode ==
    (" " :> 32) @@ ("-" :> 45) @@ ("0" :> 48) @@ ("1" :> 49) @@ ("2" :> 50) @@
    ("3" :> 51) @@ ("4" :> 52) @@ ("5" :> 53) @@ ("6" :> 54) @@ ("7" :> 55) @@
    ("8" :> 56) @@ ("9" :> 57) @@ ("A" :> 65) @@ ("B" :> 66) @@ ("E" :> 69) @@
    ("a" :> 97) @@ ("b" :> 98)

\* a str as a key component: its code points; a date: its ordinal
StrKey(s) == [i \in 1..Len(s) |-> CharCode[s[i]]]
DateKey(ord) == <<ord>>

RECURSIVE SeqLt(_, _)
\* a < b on str (by code point, a proper prefix first) and on dates
SeqLt(a, b) ==
    IF b = <<>> THEN FALSE
    ELSE IF a = <<>> THEN TRUE
    ELSE IF Head(a) = Head(b) THEN SeqLt(Tail(a), Tail(b))
    ELSE Head(a) < Head(b)

\* a < b on key tuples of one length: the first unequal component decides
KeyLt(a, b) ==
    \E i \in 1..Len(a) :
        /\ \A j \in 1..(i - 1) : a[j] = b[j]
        /\ SeqLt(a[i], b[i])

\* sorted() gone wrong: element n goes in front of the elements it ties with
InsertPosBeforeTies(keys, prev, n) ==
    Cardinality({j \in 1..Len(prev) : KeyLt(keys[prev[j]], keys[n])})

\* where sorted() puts element n among the already sorted prev: behind every
\* element that is not greater (stable)
InsertPos(keys, prev, n) ==
    Cardinality({j \in 1..Len(prev) : ~KeyLt(keys[n], keys[prev[j]])})

\* prev with n put at position pos + 1
InsertAt(prev, pos, n) ==
    SubSeq(prev, 1, pos) \o <<n>> \o SubSeq(prev, pos + 1, Len(prev))

RECURSIVE SortOrder(_, _)
\* sorted(): the input positions of the first n elements, in sorted order
SortOrder(keys, n) ==
    IF n = 0 THEN <<>>
    ELSE Bind(SortOrder(keys, n - 1), LAMBDA prev :
            Bind(InsertPos(keys, prev, n), LAMBDA pos : InsertAt(prev, pos, n)))

\* the key of sort_values(by=["date", "employee_id"]) and of the sort lambdas
DateEmpKey(row) == <<DateKey(ValueOf(row["date"])), StrKey(ValueOf(row["employee_id"]))>>

\* rows put in the order sorted() gives them under their keys
SortRows(rows, keys) ==
    Bind(keys, LAMBDA ks :
    Bind(SortOrder(ks, Len(ks)), LAMBDA order :
        [rows |-> [i \in 1..Len(order) |-> rows[order[i]]], order |-> order]))

(***************************************************************************)
(* calc_work_hours                                                         *)
(***************************************************************************)
MaxNetHours == 16

RequiredColumns ==
    {"date", "employee_id", "name", "clock_in", "clock_out", "breaks", "ot_hours"}

NormalizedColumns ==
    {"date", "employee_id", "name", "shift_label", "clock_in", "clock_out",
     "break_total", "ot_hours", "work_hours"}

\* line 175 gone wrong: the overtime is left out of the net hours
NetHoursWithoutOvertime(raw_minutes, break_total, ot_hours) ==
    FSub(Fin(raw_minutes * UnitsPerMinute), break_total)

\* line 175: raw_hours.total_seconds() / 3600 - break_total + ot_hours
NetHours(raw_minutes, break_total, ot_hours) ==
    FAdd(FSub(Fin(raw_minutes * UnitsPerMinute), break_total), ot_hours)

\* lines 176-179: the message of the bound the net hours break, "" if none
NetHoursBreach(net_hours) ==
    IF FLt(net_hours, Fin(0)) THEN "Net worked hours cannot be negative"
    ELSE IF FGt(net_hours, Hours(MaxNetHours))
    THEN "Net worked hours cannot exceed 16 hours"
    ELSE ""

\* line 186: str(row.get("shift_label", "") or "").strip() or None
ShiftLabel(row) ==
    Bind(Get(row, "shift_label", PyStr(<<>>)), LAMBDA v :
    Bind(IF TypeOf(v) = "None" \/ v = PyStr(<<>>) THEN <<>> ELSE Strip(StrOf(v)), LAMBDA text :
        IF text = <<>> THEN PyNone ELSE PyStr(text)))

\* lines 170 and 189: round(sum(breaks_list), 2); the sum of no breaks is the
\* int 0 and stays an int
RoundedBreakTotal(breaks_list) ==
    IF breaks_list = <<>> THEN PyInt(0) ELSE PyNum(Round2(FSum(breaks_list)))

\* lines 181-193: the normalized record
NormalizedRow(row, work_date, interval, breaks_list, ot_hours, net_hours) ==
    [c \in NormalizedColumns |->
        CASE c = "date" -> PyDate(work_date)
          [] c = "employee_id" -> PyStr(Strip(StrOf(row["employee_id"])))
          [] c = "name" -> PyStr(Strip(StrOf(row["name"])))
          [] c = "shift_label" -> ShiftLabel(row)
          [] c = "clock_in" -> PyStr(StrftimeHM(interval.start))
          [] c = "clock_out" -> PyStr(StrftimeHM(interval.end))
          [] c = "break_total" -> RoundedBreakTotal(breaks_list)
          [] c = "ot_hours" -> PyNum(Round2(ot_hours))
          [] OTHER -> PyNum(Round2(net_hours))]

\* lines 169-193: the breaks, the overtime, the bounds and the record
CalcNet(row, work_date, interval) ==
    Bind(_flatten_breaks(row["breaks"]), LAMBDA b :
        IF ~b.ok THEN b ELSE
    Bind(FSum(b.val), LAMBDA break_total :
    Bind(_ensure_float(row["ot_hours"]), LAMBDA ot :
        IF ~ot.ok THEN ot
        ELSE IF FLt(ot.val, Fin(0))
        THEN Raise(ValidationError, "Overtime hours cannot be negative") ELSE
    Bind(NetHours(DtDiffMinutes(interval.start, interval.end), break_total, ot.val),
         LAMBDA net_hours :
        IF NetHoursBreach(net_hours) # ""
        THEN Raise(ValidationError, NetHoursBreach(net_hours))
        ELSE Return(NormalizedRow(row, work_date, interval, b.val, ot.val,
                                  net_hours))))))

\* lines 163-193: one pass of the loop body, the record or the exception
CalcRow(record) ==
    Bind(record, LAMBDA row :
    Bind(parse_date(StrOf(row["date"])), LAMBDA d :
        IF ~d.ok THEN d ELSE
    Bind(parse_time(StrOf(row["clock_in"])), LAMBDA tin :
        IF ~tin.ok THEN tin ELSE
    Bind(parse_time(StrOf(row["clock_out"])), LAMBDA tout :
        IF ~tout.ok THEN tout ELSE
    Bind(normalize_interval(Combine(d.val, tin.val), Combine(d.val, tout.val)), LAMBDA iv :
        IF ~iv.ok THEN iv
        ELSE CalcNet(row, d.val, iv.val))))))

\* the outcome of a call on a frame: the returned frame, or the exception with
\* the missing columns it names and the input row (0: none) that raised it;
\* order relates each returned row to the input row it was made from
Returned(df, order) ==
    [ok |-> TRUE, kind |-> "", msg |-> "", missing |-> {}, at |-> 0,
     frame |-> df, order |-> order]

Raised(kind, msg, missing, at) ==
    [ok |-> FALSE, kind |-> kind, msg |-> msg, missing |-> missing, at |-> at,
     frame |-> [columns |-> {}, rows |-> <<>>], order |-> <<>>]

RECURSIVE CalcLoopSkipping(_, _, _)
\* the loop gone wrong: a row that raises is skipped and the loop goes on
CalcLoopSkipping(rows, i, normalized_rows) ==
    IF i > Len(rows) THEN Returned(DataFrame(normalized_rows, NoColumns), <<>>)
    ELSE Bind(CalcRow(rows[i]), LAMBDA r :
            IF r.ok
            THEN Bind(Append(normalized_rows, r.val), LAMBDA done :
                    CalcLoopSkipping(rows, i + 1, done))
            ELSE CalcLoopSkipping(rows, i + 1, normalized_rows))

RECURSIVE CalcLoop(_, _, _)
\* lines 160-193: rows in input order; a raise leaves the loop and the call
CalcLoop(rows, i, normalized_rows) ==
    IF i > Len(rows) THEN Returned(DataFrame(normalized_rows, NoColumns), <<>>)
    ELSE Bind(CalcRow(rows[i]), LAMBDA r :
            IF r.ok
            THEN Bind(Append(normalized_rows, r.val), LAMBDA done :
                    CalcLoop(rows, i + 1, done))
            ELSE Raised(r.kind, r.msg, {}, i))

\* lines 195-208 gone wrong: no rows are sorted like any other rows, and the
\* frame gets the columns of its first row
CalcSortedWithoutEmptyCase(normalized) ==
    Bind(normalized, LAMBDA normalized_rows :
    Bind(SortRows(normalized_rows,
                  [i \in 1..Len(normalized_rows) |-> DateEmpKey(normalized_rows[i])]),
         LAMBDA sorted :
        Returned([columns |-> DataFrame(normalized_rows, NoColumns).columns,
                  rows |-> sorted.rows], sorted.order)))

\* lines 195-213: the empty frame, or the rows sorted by date and employee
CalcSorted(normalized) ==
    Bind(normalized, LAMBDA normalized_rows :
        IF normalized_rows = <<>>
        THEN Returned(DataFrame(<<>>, NormalizedColumns), <<>>)
        ELSE Bind(SortRows(normalized_rows,
                           [i \in 1..Len(normalized_rows) |->
                               DateEmpKey(normalized_rows[i])]), LAMBDA sorted :
                Returned([columns |-> DataFrame(normalized_rows, NoColumns).columns,
                          rows |-> sorted.rows], sorted.order)))

\* line 156 gone wrong: only one of the missing columns is found
MissingColumnsFirstOnly(records) ==
    IF RequiredColumns \subseteq records.columns THEN {}
    ELSE {CHOOSE c \in RequiredColumns : c \notin records.columns}

\* line 156: required_columns - set(records.columns)
MissingColumns(records) == RequiredColumns \ records.columns

calc_work_hours(df) ==
    Bind(df, LAMBDA records :
    Bind(MissingColumns(records), LAMBDA missing :
        IF missing # {}
        THEN Raised(ValidationError, "Missing required columns", missing, 0)
        ELSE Bind(CalcLoop(records.rows, 1, <<>>), LAMBDA looped :
                IF ~looped.ok THEN looped
                ELSE CalcSorted(looped.frame.rows))))

(***************************************************************************)
(* build_daily_summary                                                     *)
(***************************************************************************)
\* lines 236-242: a date stays, any other value is parsed from its text
DayValue(raw_date) ==
    IF TypeOf(raw_date) = "date" THEN Return(ValueOf(raw_date))
    ELSE parse_date(StrOf(raw_date))

\* lines 243-255: the record with its date and its three floats converted
DailyDict(row, day_value, break_total, ot_hours, work_hours) ==
    [c \in NormalizedColumns |->
        CASE c = "date" -> PyDate(day_value)
          [] c = "employee_id" -> PyStr(Strip(StrOf(row["employee_id"])))
          [] c = "name" -> PyStr(Strip(StrOf(row["name"])))
          [] c = "shift_label" -> Get(row, "shift_label", PyNone)
          [] c = "clock_in" -> row["clock_in"]
          [] c = "clock_out" -> row["clock_out"]
          [] c = "break_total" -> PyNum(break_total)
          [] c = "ot_hours" -> PyNum(ot_hours)
          [] OTHER -> PyNum(work_hours)]

\* lines 236-255: the daily row, or the first exception its fields raise
DailyRow(record) ==
    Bind(record, LAMBDA row :
    Bind(DayValue(row["date"]), LAMBDA day :
        IF ~day.ok THEN day ELSE
    Bind(FloatOf(row["break_total"]), LAMBDA bt :
        IF ~bt.ok THEN bt ELSE
    Bind(FloatOf(row["ot_hours"]), LAMBDA ot :
        IF ~ot.ok THEN ot ELSE
    Bind(FloatOf(row["work_hours"]), LAMBDA wh :
        IF ~wh.ok THEN wh
        ELSE Return(DailyDict(row, day.val, bt.val, ot.val, wh.val)))))))

RECURSIVE DailyLoop(_, _, _)
\* lines 234-255
DailyLoop(rows, i, daily_rows) ==
    IF i > Len(rows) THEN Returned(DataFrame(daily_rows, NoColumns), <<>>)
    ELSE Bind(DailyRow(rows[i]), LAMBDA r :
            IF r.ok
            THEN Bind(Append(daily_rows, r.val), LAMBDA done : DailyLoop(rows, i + 1, done))
            ELSE Raised(r.kind, r.msg, {}, i))

\* lines 257-258: the rows sorted by date and employee, under the fixed columns
DailySorted(rows) ==
    Bind(rows, LAMBDA daily_rows :
    Bind(SortRows(daily_rows, [i \in 1..Len(daily_rows) |-> DateEmpKey(daily_rows[i])]),
         LAMBDA sorted :
        Returned(DataFrame(sorted.rows, NormalizedColumns), sorted.order)))

build_daily_summary(df) ==
    Bind(df, LAMBDA records :
    Bind({col \in NormalizedColumns : col \notin records.columns}, LAMBDA missing :
        IF missing # {}
        THEN Raised(ValidationError, "Records missing expected columns", missing, 0)
        ELSE Bind(DailyLoop(records.rows, 1, <<>>), LAMBDA looped :
                IF ~looped.ok THEN looped
                ELSE DailySorted(looped.frame.rows))))

(***************************************************************************)
(* build_weekly_summary, build_monthly_summary                             *)
(***************************************************************************)
WeeklyColumns ==
    {"week_start", "week_end", "employee_id", "name", "work_hours_total",
     "ot_total", "days_present"}

MonthlyColumns ==
    {"month", "employee_id", "name", "work_hours_total", "ot_total", "days_present"}

\* line 281 gone wrong: weeks that start on Sunday
WeekStartSunday(day_value) == day_value - ((Weekday(day_value) + 1) % 7)

\* line 281: day_value - timedelta(days=day_value.weekday())
WeekStart(day_value) == day_value - Weekday(day_value)

\* line 282: week_start + timedelta(days=6)
WeekEnd(week_start) == week_start + 6

\* the month and day of the day r1 (from 0) of a year
MonthDay(year, r1) ==
    Bind(CHOOSE k \in 1..12 :
            /\ DaysBeforeMonth(year, k) <= r1
            /\ r1 < DaysBeforeMonth(year, k) + DaysInMonth(year, k), LAMBDA m :
        [y |-> year, m |-> m, d |-> r1 - DaysBeforeMonth(year, m) + 1])

\* date.fromordinal: year, month, day, by the 400-, 100-, 4- and 1-year cycles
\* of 146097, 36524, 1461 and 365 days
Ord2Ymd(ord) ==
    Bind((ord - 1) \div 146097, LAMBDA n400 :
    Bind((ord - 1) % 146097, LAMBDA r400 :
    Bind(r400 \div 36524, LAMBDA n100 :
    Bind((r400 % 36524) \div 1461, LAMBDA n4 :
    Bind(((r400 % 36524) % 1461) \div 365, LAMBDA n1 :
    Bind(n400 * 400 + n100 * 100 + n4 * 4 + n1 + 1, LAMBDA year :
        IF n1 = 4 \/ n100 = 4 THEN [y |-> year - 1, m |-> 12, d |-> 31]
        ELSE MonthDay(year, ((r400 % 36524) % 1461) % 365)))))))

\* line 347: strftime("%Y-%m"), for the four-digit years of the modelled dates
MonthKey(ord) ==
    Bind(Ord2Ymd(ord), LAMBDA ymd :
        Pad2(ymd.y \div 100) \o Pad2(ymd.y % 100) \o <<"-">> \o Pad2(ymd.m))

\* setdefault gone wrong: every row starts an aggregate of its own
SetDefaultAlwaysFresh(aggregates, key, fresh) == Append(aggregates, fresh)

\* aggregates.setdefault(key, fresh): a dict in insertion order, as the
\* sequence of its values
SetDefault(aggregates, key, fresh) ==
    IF \E i \in 1..Len(aggregates) : aggregates[i].key = key
    THEN aggregates ELSE Append(aggregates, fresh)

\* the three updates of lines 296-298 (360-362) on the aggregate of the key
Accumulate(aggregates, key, fresh, row) ==
    Bind(SetDefault(aggregates, key, fresh), LAMBDA had :
    Bind(CHOOSE i \in 1..Len(had) : had[i].key = key, LAMBDA at :
        [had EXCEPT
            ![at].work_hours_total = FAdd(@, FloatOf(row["work_hours"]).val),
            ![at].ot_total = FAdd(@, FloatOf(row["ot_hours"]).val),
            ![at].days_present = @ \cup {ValueOf(row["date"])}]))

\* lines 281-295: the aggregate a new weekly key starts from
FreshWeekly(row) ==
    Bind(WeekStart(ValueOf(row["date"])), LAMBDA week_start :
    Bind(WeekEnd(week_start), LAMBDA week_end :
        [key |-> <<week_start, week_end, ValueOf(row["employee_id"]), ValueOf(row["name"])>>,
         week_start |-> week_start, week_end |-> week_end,
         employee_id |-> ValueOf(row["employee_id"]), name |-> ValueOf(row["name"]),
         work_hours_total |-> Fin(0), ot_total |-> Fin(0), days_present |-> {}]))

RECURSIVE WeeklyLoop(_, _, _)
\* lines 278-298: week_end past date.max is an OverflowError
WeeklyLoop(rows, i, aggregates) ==
    IF i > Len(rows) THEN Return(aggregates)
    ELSE Bind(FreshWeekly(rows[i]), LAMBDA fresh :
            IF fresh.week_end > MaxOrdinal
            THEN Raise("OverflowError", "date value out of range")
            ELSE Bind(Accumulate(aggregates, fresh.key, fresh, rows[i]), LAMBDA done :
                    WeeklyLoop(rows, i + 1, done)))

\* lines 302-312
WeeklyRow(value) ==
    [c \in WeeklyColumns |->
        CASE c = "week_start" -> PyDate(value.week_start)
          [] c = "week_end" -> PyDate(value.week_end)
          [] c = "employee_id" -> PyStr(value.employee_id)
          [] c = "name" -> PyStr(value.name)
          [] c = "work_hours_total" -> PyNum(Round2(value.work_hours_total))
          [] c = "ot_total" -> PyNum(Round2(value.ot_total))
          [] OTHER -> PyInt(Cardinality(value.days_present))]

\* line 314: the key of the weekly sort
WeekEmpKey(row) == <<DateKey(ValueOf(row["week_start"])), StrKey(ValueOf(row["employee_id"]))>>

\* lines 300-326: a row per aggregate, sorted by week and employee
WeeklySorted(aggregates) ==
    Bind([i \in 1..Len(aggregates) |-> WeeklyRow(aggregates[i])], LAMBDA weekly_rows :
    Bind(SortRows(weekly_rows, [i \in 1..Len(weekly_rows) |-> WeekEmpKey(weekly_rows[i])]),
         LAMBDA sorted :
        Returned(DataFrame(sorted.rows, WeeklyColumns), sorted.order)))

build_weekly_summary(records) ==
    Bind(build_daily_summary(records), LAMBDA daily :
        IF ~daily.ok THEN daily
        ELSE IF Empty(daily.frame) THEN Returned(DataFrame(<<>>, WeeklyColumns), <<>>)
        ELSE Bind(WeeklyLoop(daily.frame.rows, 1, <<>>), LAMBDA looped :
                IF ~looped.ok THEN Raised(looped.kind, looped.msg, {}, 0)
                ELSE WeeklySorted(looped.val)))

\* lines 347-359: the aggregate a new monthly key starts from
FreshMonthly(row) ==
    Bind(MonthKey(ValueOf(row["date"])), LAMBDA month_key :
        [key |-> <<month_key, ValueOf(row["employee_id"]), ValueOf(row["name"])>>,
         month |-> month_key,
         employee_id |-> ValueOf(row["employee_id"]), name |-> ValueOf(row["name"]),
         work_hours_total |-> Fin(0), ot_total |-> Fin(0), days_present |-> {}])

RECURSIVE MonthlyLoop(_, _, _)
\* lines 345-362
MonthlyLoop(rows, i, aggregates) ==
    IF i > Len(rows) THEN aggregates
    ELSE Bind(FreshMonthly(rows[i]), LAMBDA fresh :
         Bind(Accumulate(aggregates, fresh.key, fresh, rows[i]), LAMBDA done :
            MonthlyLoop(rows, i + 1, done)))

\* lines 365-375
MonthlyRow(value) ==
    [c \in MonthlyColumns |->
        CASE c = "month" -> PyStr(value.month)
          [] c = "employee_id" -> PyStr(value.employee_id)
          [] c = "name" -> PyStr(value.name)
          [] c = "work_hours_total" -> PyNum(Round2(value.work_hours_total))
          [] c = "ot_total" -> PyNum(Round2(value.ot_total))
          [] OTHER -> PyInt(Cardinality(value.days_present))]

\* line 377 gone wrong: the monthly rows sorted by employee alone
MonthEmpKeyEmployeeOnly(row) == <<StrKey(ValueOf(row["employee_id"]))>>

\* line 377: the key of the monthly sort
MonthEmpKey(row) == <<StrKey(ValueOf(row["month"])), StrKey(ValueOf(row["employee_id"]))>>

\* lines 364-388: a row per aggregate, sorted by month and employee
MonthlySorted(aggregates) ==
    Bind([i \in 1..Len(aggregates) |-> MonthlyRow(aggregates[i])], LAMBDA monthly_rows :
    Bind(SortRows(monthly_rows, [i \in 1..Len(monthly_rows) |-> MonthEmpKey(monthly_rows[i])]),
         LAMBDA sorted :
        Returned(DataFrame(sorted.rows, MonthlyColumns), sorted.order)))

build_monthly_summary(records) ==
    Bind(build_daily_summary(records), LAMBDA daily :
        IF ~daily.ok THEN daily
        ELSE IF Empty(daily.frame) THEN Returned(DataFrame(<<>>, MonthlyColumns), <<>>)
        ELSE MonthlySorted(MonthlyLoop(daily.frame.rows, 1, <<>>)))

(***************************************************************************)
(* The daily-record file: save_daily_records, load_daily_records           *)
(***************************************************************************)
RECURSIVE DecStr(_)
\* the decimal digits of a natural number, without padding
DecStr(n) ==
    IF n < 10 THEN <<DigitChar[n + 1]>>
    ELSE Bind(DecStr(n \div 10), LAMBDA high : Append(high, DigitChar[(n % 10) + 1]))

\* line 460: strftime("%d/%m/%Y"); the C library's %Y writes the year
\* without zero padding
StrftimeDMY(ord) ==
    Bind(Ord2Ymd(ord), LAMBDA ymd :
        Pad2(ymd.d) \o <<"/">> \o Pad2(ymd.m) \o <<"/">> \o DecStr(ymd.y))

\* repr(float), which csv.writer writes, of hours that are whole thousandths
FloatRepr(x) ==
    CASE x.k = "nan" -> <<"n", "a", "n">>
      [] x.k = "inf" -> <<"i", "n", "f">>
      [] x.k = "ninf" -> <<"-", "i", "n", "f">>
      [] x.k = "fin" /\ x.u % (UnitsPerHour \div 1000) = 0 ->
            Bind((IF x.u < 0 THEN 0 - x.u ELSE x.u) \div (UnitsPerHour \div 1000), LAMBDA t :
            Bind(DecStr(1000 + (t % 1000)), LAMBDA frac :
                (IF x.u < 0 THEN <<"-">> ELSE <<>>) \o DecStr(t \div 1000) \o <<".">> \o
                SubSeq(frac, 2, IF t % 10 # 0 THEN 4 ELSE IF t % 100 # 0 THEN 3 ELSE 2)))

\* the text csv.writer writes for a cell: "" for None, str(value) otherwise
CsvCell(value) ==
    Bind(value, LAMBDA v :
        CASE TypeOf(v) = "None" -> <<>>
          [] TypeOf(v) = "num" -> FloatRepr(ValueOf(v))
          [] TypeOf(v) = "int" -> DecStr(ValueOf(v))
          [] OTHER -> StrOf(v))

\* a file that does not exist; a file is the sequence of its records, each
\* the texts of its cells by column
NoFile == [exists |-> FALSE, lines |-> <<>>]

\* lines 458-470: the cells of one record; a date that is no date object has
\* no strftime
SavedRow(record) ==
    Bind(record, LAMBDA row :
        IF TypeOf(row["date"]) # "date"
        THEN Raise("AttributeError", "object has no attribute 'strftime'")
        ELSE Return([c \in NormalizedColumns |->
                CASE c = "date" -> StrftimeDMY(ValueOf(row["date"]))
                  [] c = "shift_label" ->
                        IF Get(row, c, PyNone) \in {PyNone, PyStr(<<>>), PyBool(FALSE), PyNum(Fin(0))}
                        THEN <<>> ELSE CsvCell(row[c])
                  [] OTHER -> CsvCell(row[c])]))

\* save_daily_records: the file it leaves, or the exception of the first
\* record that has no cells
save_daily_records(records) ==
    Bind([i \in 1..Len(records.rows) |-> SavedRow(records.rows[i])], LAMBDA rows :
    Bind({i \in 1..Len(rows) : ~rows[i].ok}, LAMBDA bad :
        IF bad # {} THEN rows[CHOOSE i \in bad : \A j \in bad : i <= j]
        ELSE Return([exists |-> TRUE, lines |-> [i \in 1..Len(rows) |-> rows[i].val]])))

IOError == "AttendanceIOError"

\* float(text or 0) of lines 426-428
StoredFloat(text) == IF text = <<>> THEN Return(Fin(0)) ELSE FloatOf(PyStr(text))

\* lines 414-430: the record of one line of the file
LoadedRow(line) ==
    Bind(line, LAMBDA record :
    Bind(parse_date(record["date"]), LAMBDA day_value :
        IF ~day_value.ok THEN Raise(IOError, "Invalid date in stored data") ELSE
    Bind(StoredFloat(record["break_total"]), LAMBDA bt :
        IF ~bt.ok THEN Raise(IOError, "Failed to load data") ELSE
    Bind(StoredFloat(record["ot_hours"]), LAMBDA ot :
        IF ~ot.ok THEN Raise(IOError, "Failed to load data") ELSE
    Bind(StoredFloat(record["work_hours"]), LAMBDA wh :
        IF ~wh.ok THEN Raise(IOError, "Failed to load data") ELSE
        Return([c \in NormalizedColumns |->
            CASE c = "date" -> PyDate(day_value.val)
              [] c = "shift_label" -> IF record[c] = <<>> THEN PyNone ELSE PyStr(record[c])
              [] c = "break_total" -> PyNum(bt.val)
              [] c = "ot_hours" -> PyNum(ot.val)
              [] c = "work_hours" -> PyNum(wh.val)
              [] OTHER -> PyStr(record[c])]))))))

\* load_daily_records: the frame of the file's records, the empty frame of the
\* normalized columns without a file or without records
load_daily_records(file) ==
    Bind([i \in 1..Len(file.lines) |-> LoadedRow(file.lines[i])], LAMBDA rows :
    Bind({i \in 1..Len(rows) : ~rows[i].ok}, LAMBDA bad :
        IF bad # {}
        THEN Bind(rows[CHOOSE i \in bad : \A j \in bad : i <= j], LAMBDA r :
                Raised(r.kind, r.msg, {}, 0))
        ELSE IF rows = <<>> THEN Returned(DataFrame(<<>>, NormalizedColumns), <<>>)
        ELSE Returned(DataFrame([i \in 1..Len(rows) |-> rows[i].val], NoColumns), <<>>)))

(***************************************************************************)
(* Inputs                                                                  *)
(***************************************************************************)
\* "HH:MM" and "DD/MM/YYYY" texts
HM(h, m) == Pad2(h) \o <<":">> \o Pad2(m)
DMY(d, m, y) ==
    Pad2(d) \o <<"/">> \o Pad2(m) \o <<"/">> \o Pad2(y \div 100) \o Pad2(y % 100)

\* exact hour values given in thousandths of an hour
Milli(n) == Fin(n * (UnitsPerHour \div 1000))

RawColumns == RequiredColumns \cup {"shift_label"}

RawRow(date, employee_id, name, clock_in, clock_out, breaks, ot_hours, shift_label) ==
    [c \in RawColumns |->
        CASE c = "date" -> PyStr(date)
          [] c = "employee_id" -> PyStr(employee_id)
          [] c = "name" -> PyStr(name)
          [] c = "clock_in" -> PyStr(clock_in)
          [] c = "clock_out" -> PyStr(clock_out)
          [] c = "breaks" -> breaks
          [] c = "ot_hours" -> ot_hours
          [] OTHER -> shift_label]

E001 == <<"E", "0", "0", "1">>
E002 == <<"E", "0", "0", "2">>
Alice == <<"A", "l", "i", "c", "e">>
Bob == <<"B", "o", "b">>
Day == PyStr(<<"D", "a", "y">>)

ClockIns ==
    {HM(8, 0), HM(19, 0), HM(8, 30), HM(8, 20),
     <<"2", "5", ":", "0", "0">>, <<"8", ":", "0", "0">>}

ClockOuts ==
    {HM(17, 0), HM(4, 0), HM(18, 0), HM(8, 0), HM(8, 20),
     <<"2", "4", ":", "0", "0">>, <<" ", "1", "7", ":", "5", " ">>, <<"1", "7", ":", "6", "0">>}

BreakValues ==
    {PyNone, PyNum(Hours(1)), PyNum(Milli(4)), PyNum(Hours(0 - 1)), PyNum(NaN),
     PyNum(Hours(10)), PyBool(TRUE), PyDict,
     PyList(<<PyNum(Hours(1)), PyNum(Milli(500))>>),
     PyList(<<PyNum(Hours(1)), PyNum(Hours(0 - 1))>>),
     PyList(<<PyStr(<<"1">>), PyNone>>),
     PyStr(<<>>),
     PyStr(<<"1">>),
     PyStr(<<"0", ".", "5", ",", " ", "0", ".", "2", "5">>),
     PyStr(<<"0", ".", "5", ";", "0", ".", "2", "5">>),
     PyStr(<<"[", "1", ",", " ", "0", ".", "5", "]">>),
     PyStr(<<"[", "1", ",", " ", "-", "0", ".", "5", "]">>),
     PyStr(<<"1", ",", ",", "2">>),
     PyStr(<<"a", "b", "c">>),
     PyStr(<<"n", "a", "n">>),
     PyStr(<<"i", "n", "f">>),
     PyStr(<<"-", "1">>),
     PyStr(<<"n", "u", "l", "l">>),
     PyStr(<<"{", "}">>)}

OtValues ==
    {PyNum(Hours(0)), PyNum(Hours(2)), PyNum(Hours(9)), PyNum(Hours(0 - 1)),
     PyNone, PyStr(<<"1", ".", "5">>), PyStr(<<"a", "b", "c">>),
     PyStr(<<"n", "a", "n">>), PyStr(<<"i", "n", "f">>)}

DateTexts ==
    {DMY(1, 7, 2024), DMY(29, 2, 2024), DMY(29, 2, 2023), DMY(32, 1, 2024),
     DMY(31, 12, 9999), <<"1", "/", "7", "/", "2", "0", "2", "4">>,
     <<" ", "0", "1", "/", "0", "7", "/", "2", "0", "2", "4">>,
     <<"2", "0", "2", "4", "-", "0", "7", "-", "0", "1">>}

\* the break and overtime values of one row: every break with no overtime,
\* every overtime with a break of one hour, and an infinite break with an
\* infinite overtime
BreakOtPairs ==
    (BreakValues \X {PyNum(Hours(0))}) \cup ({PyNum(Hours(1))} \X OtValues)
    \cup {<<PyStr(<<"i", "n", "f">>), PyStr(<<"i", "n", "f">>)>>}

\* the rows of one call: every pairing of the clock texts, the pairs of break
\* and overtime values, and every date text with a night shift that ends
\* before and one that ends after midnight
CalcRows ==
    {RawRow(DMY(1, 7, 2024), E001, Alice, ci, co, PyNum(Hours(1)), PyNum(Hours(0)), Day) :
        ci \in ClockIns, co \in ClockOuts}
    \cup
    {RawRow(DMY(1, 7, 2024), <<" ">> \o E001, Alice \o <<" ">>, HM(8, 0), HM(17, 0),
            p[1], p[2], PyNone) : p \in BreakOtPairs}
    \cup
    {RawRow(dt, E002, Bob, HM(19, 0), co, PyNum(Hours(1)), PyNum(Hours(0)), PyStr(<<" ">>)) :
        dt \in DateTexts, co \in {HM(4, 0), HM(23, 0)}}

E003 == <<"E", "0", "0", "3">>

\* the rows of a batch: two dates out of order, two employees (one id with a
\* leading blank), a day and a night shift, and three rows that raise
BatchRows ==
    {RawRow(dt, id, who[1], who[2], who[3], PyNum(Hours(1)), who[4], Day) :
        dt \in {DMY(2, 7, 2024), DMY(1, 7, 2024)},
        id \in {E002, <<" ">> \o E003},
        who \in {<<Alice, HM(8, 0), HM(17, 0), PyNum(Hours(2))>>,
                 <<Bob, HM(19, 0), HM(4, 0), PyNum(Hours(0))>>}}
    \cup
    {RawRow(DMY(1, 7, 2024), E001, Alice, <<"2", "5", ":", "0", "0">>, HM(18, 0),
            PyNum(Hours(1)), PyNum(Hours(0)), Day),
     RawRow(DMY(1, 7, 2024), E001, Bob, HM(8, 0), HM(17, 0),
            PyStr(<<"a", "b", "c">>), PyNum(Hours(0)), Day),
     RawRow(DMY(1, 7, 2024), E001, Bob, HM(8, 0), HM(17, 0),
            PyNum(Hours(1)), PyStr(<<"n", "a", "n">>), Day)}

\* the key sets a caller's dictionaries may have
RawKeySets == {RawColumns, RequiredColumns, RawColumns \ {"breaks", "name"}}

Restrict(row, keys) == [c \in keys |-> row[c]]

RawRows == {Restrict(r, keys) : r \in BatchRows, keys \in RawKeySets}

DailyRecord(date, employee_id, name, work_hours, ot_hours) ==
    [c \in NormalizedColumns |->
        CASE c = "date" -> date
          [] c = "employee_id" -> PyStr(employee_id)
          [] c = "name" -> PyStr(name)
          [] c = "shift_label" -> PyNone
          [] c = "clock_in" -> PyStr(HM(8, 0))
          [] c = "clock_out" -> PyStr(HM(17, 0))
          [] c = "break_total" -> PyNum(Hours(1))
          [] c = "ot_hours" -> PyNum(ot_hours)
          [] OTHER -> PyNum(work_hours)]

\* a Monday, the Sunday of its week and a Thursday of a later week and month
DailyDates ==
    {PyDate(Ymd2Ord(2024, 7, 1)), PyDate(Ymd2Ord(2024, 7, 7)), PyDate(Ymd2Ord(2024, 8, 1))}

\* normalized records, their hours whole hundredths (Milli of a multiple of
\* 10): two employees on each of the dates, then the Wednesday before the
\* Thursday (one week, two months), a date kept as text, and date.max
DailyRows ==
    {DailyRecord(dt, id, who[1], who[2], who[3]) :
        dt \in DailyDates,
        id \in {E001, E002},
        who \in {<<Alice, Milli(8000), Milli(0)>>, <<Bob, Milli(8250), Milli(2000)>>}}
    \cup
    {DailyRecord(PyDate(Ymd2Ord(2024, 7, 31)), E001, Alice, Milli(9670), Milli(1500)),
     DailyRecord(PyStr(DMY(1, 7, 2024)), E002 \o <<" ">>, Bob, Milli(9670), Milli(1500)),
     DailyRecord(PyDate(MaxOrdinal), E001, Alice, Milli(8000), Milli(0))}

\* the records written to the file and read back: the daily records, a record
\* with a shift label and one whose label is the empty text, and a record of
\* the year 999
StoredRows ==
    DailyRows
    \cup
    {[DailyRecord(PyDate(Ymd2Ord(2024, 7, 1)), E001, Alice, Milli(8000), Milli(0))
        EXCEPT !["shift_label"] = label] : label \in {Day, PyStr(<<>>)}}
    \cup
    {DailyRecord(PyDate(Ymd2Ord(999, 1, 1)), E001, Alice, Milli(8000), Milli(0))}

\* the rows of imported CSV files and the answers typed at the prompts, every
\* cell a text: a day and a night shift (no breaks, padded cells), a clock_in
\* of 25:00, breaks that do not read as numbers, and a date of the year 999
CsvRows ==
    {RawRow(DMY(1, 7, 2024), E001, Alice, HM(8, 0), HM(17, 0),
            PyStr(<<"1">>), PyStr(<<"0">>), Day),
     RawRow(DMY(2, 7, 2024), <<" ">> \o E002, Bob, HM(19, 0), HM(4, 0),
            PyStr(<<>>), PyStr(<<>>), PyStr(<<>>)),
     RawRow(DMY(1, 7, 2024), E001, Alice, <<"2", "5", ":", "0", "0">>, HM(17, 0),
            PyStr(<<"1">>), PyStr(<<"0">>), Day),
     RawRow(DMY(1, 7, 2024), E001, Bob, HM(8, 0), HM(17, 0),
            PyStr(<<"a", "b", "c">>), PyStr(<<"0">>), Day),
     RawRow(DMY(1, 1, 999), E001, Alice, HM(8, 0), HM(17, 0),
            PyStr(<<"0", ".", "5">>), PyStr(<<"1", ".", "5">>), PyStr(<<>>))}

\* the CSV files: none at the path, one without rows, one of each row, one of
\* each row without the breaks and shift_label columns, and the two-row files
\* that start with the night shift
CsvFiles ==
    {NoFile, [exists |-> TRUE, lines |-> <<>>]}
    \cup {[exists |-> TRUE, lines |-> <<r>>] : r \in CsvRows}
    \cup {[exists |-> TRUE, lines |-> <<Restrict(r, RawColumns \ {"breaks", "shift_label"})>>] :
            r \in CsvRows}
    \cup {[exists |-> TRUE, lines |-> <<RawRow(DMY(2, 7, 2024), <<" ">> \o E002, Bob, HM(19, 0),
                                              HM(4, 0), PyStr(<<>>), PyStr(<<>>), PyStr(<<>>)), r>>] :
            r \in CsvRows}

\* the answers to the breaks prompt: the row's own, or first a negative one
BreakAnswers(typed) ==
    {<<StrOf(typed["breaks"])>>, <<<<"-", "1">>, StrOf(typed["breaks"])>>}

MaxStoredRows == 2
MaxRawRows == 2
MaxDailyRows == 2
MaxCalcRows == 1

(***************************************************************************)
(* io_csv.load_csv_records and the two recording handlers                  *)
(***************************************************************************)
\* load_csv_records: a CSV file is the sequence of the rows DictReader reads
\* from it, every cell a text; columns the header lacks are set to None
load_csv_records(file) ==
    IF ~file.exists THEN Raised(IOError, "CSV file not found", {}, 0)
    ELSE Returned(DataFrame(file.lines, RawColumns), <<>>)

RECURSIVE _input_breaks(_)
\* _input_breaks: the answers to the prompt in turn; an answer that fails
\* validation is asked again, any other exception ends the call, as does the
\* end of the input
_input_breaks(answers) ==
    IF answers = <<>> THEN Raise("EOFError", "EOF when reading a line")
    ELSE Bind(_flatten_breaks(PyStr(Strip(Head(answers)))), LAMBDA b :
            IF ~b.ok /\ b.kind = ValidationError THEN _input_breaks(Tail(answers))
            ELSE b)

\* _create_record_from_input: the answers stripped by _prompt, the breaks a
\* list of floats, an empty overtime answer the int 0
_create_record_from_input(typed, breaks) ==
    DataFrame(<<[c \in RawColumns |->
        CASE c = "breaks" -> PyList([k \in 1..Len(breaks) |-> PyNum(breaks[k])])
          [] c = "ot_hours" ->
                IF Strip(StrOf(typed[c])) = <<>> THEN PyInt(0)
                ELSE PyStr(Strip(StrOf(typed[c])))
          [] OTHER -> PyStr(Strip(StrOf(typed[c])))]>>, NoColumns)

RECURSIVE MergedRows(_)
\* lines 573-579: the rows of the frames in turn, each with its frame's columns
MergedRows(frames) ==
    IF frames = <<>> THEN <<>>
    ELSE [i \in 1..Len(Head(frames).rows) |-> Restrict(Head(frames).rows[i], Head(frames).columns)]
         \o MergedRows(Tail(frames))

\* _merge_records: under the columns of the first frame that has any
_merge_records(frames) ==
    Bind({i \in 1..Len(frames) : frames[i].columns # {}}, LAMBDA with :
        DataFrame(MergedRows(frames),
                  IF with = {} THEN NormalizedColumns
                  ELSE frames[CHOOSE i \in with : \A j \in with : i <= j].columns))

\* what a handler leaves: the batch it handed to calc_work_hours, its outcome
\* and the daily-record file
Handled(batch, out, file) == [batch |-> batch, out |-> out, file |-> file]

\* lines 603-607 and 621-625: load, merge, save; an exception of
\* load_daily_records or save_daily_records is not caught
SaveMerged(batch, processed, file) ==
    Bind(load_daily_records(file), LAMBDA existing :
        IF ~existing.ok THEN Handled(batch, existing, file) ELSE
    Bind(_merge_records(<<existing.frame, processed>>), LAMBDA combined :
    Bind(save_daily_records(combined), LAMBDA saved :
        IF ~saved.ok THEN Handled(batch, Raised(saved.kind, saved.msg, {}, 0), file)
        ELSE Handled(batch, Returned(combined, <<>>), saved.val))))

\* _handle_record_single: a validation error of calc_work_hours is reported
\* and pd.DataFrame() returned; any other exception is not caught
_handle_record_single(typed, answers, file) ==
    Bind(_input_breaks(answers), LAMBDA breaks :
        IF ~breaks.ok
        THEN Handled(DataFrame(<<>>, NoColumns), Raised(breaks.kind, breaks.msg, {}, 0), file)
        ELSE
    Bind(_create_record_from_input(typed, breaks.val), LAMBDA new_record :
    Bind(calc_work_hours(new_record), LAMBDA processed :
        IF ~processed.ok /\ processed.kind = ValidationError
        THEN Handled(new_record, Returned(DataFrame(<<>>, NoColumns), <<>>), file)
        ELSE IF ~processed.ok THEN Handled(new_record, processed, file)
        ELSE SaveMerged(new_record, processed.frame, file))))

\* _handle_import_csv: an AttendanceError of load_csv_records or
\* calc_work_hours is reported and load_daily_records() returned; any other
\* exception is not caught
_handle_import_csv(csv, file) ==
    Bind(load_csv_records(csv), LAMBDA imported :
    Bind(IF imported.ok THEN calc_work_hours(imported.frame) ELSE imported, LAMBDA processed :
        IF ~processed.ok /\ processed.kind \in {ValidationError, IOError}
        THEN Handled(imported.frame, load_daily_records(file), file)
        ELSE IF ~processed.ok THEN Handled(imported.frame, processed, file)
        ELSE SaveMerged(imported.frame, processed.frame, file)))

(***************************************************************************)
(* The state machine: a caller builds a frame and calls an operation on it *)
(***************************************************************************)
NoResult == [op |-> "none", out |-> Raised("", "", {}, 0)]

\* pd.DataFrame(rows) with one more row
AddRowFrom(rowSet, bound) ==
    \E r \in rowSet :
        /\ Len(frame.rows) < bound
        /\ frame.columns = {} \/ frame.columns = DOMAIN r
        /\ frame' = DataFrame(Append(frame.rows, r), NoColumns)
        /\ result' = NoResult
        /\ UNCHANGED store

AddCalcRow == AddRowFrom(CalcRows, MaxCalcRows)

CalcWorkHours ==
    /\ result' = [op |-> "calc_work_hours", out |-> calc_work_hours(frame)]
    /\ frame' = AfterCall(frame)
    /\ UNCHANGED store

InitCalc ==
    /\ frame = DataFrame(<<>>, NoColumns)
    /\ result = NoResult
    /\ store = NoFile

NextCalc == AddCalcRow \/ CalcWorkHours

SpecCalc == InitCalc /\ [][NextCalc]_vars

AddRawRow == AddRowFrom(RawRows, MaxRawRows)

AddDailyRow == AddRowFrom(DailyRows, MaxDailyRows)

BuildDailySummary ==
    /\ result' = [op |-> "build_daily_summary", out |-> build_daily_summary(frame)]
    /\ frame' = AfterCall(frame)
    /\ UNCHANGED store

BuildWeeklySummary ==
    /\ result' = [op |-> "build_weekly_summary", out |-> build_weekly_summary(frame)]
    /\ frame' = AfterCall(frame)
    /\ UNCHANGED store

BuildMonthlySummary ==
    /\ result' = [op |-> "build_monthly_summary", out |-> build_monthly_summary(frame)]
    /\ frame' = AfterCall(frame)
    /\ UNCHANGED store

\* the empty frames a call may be given: pd.DataFrame(), and the empty frames
\* with columns that load_csv_records and load_daily_records return
Init ==
    /\ frame \in {DataFrame(<<>>, NoColumns), DataFrame(<<>>, RawColumns),
                  DataFrame(<<>>, NormalizedColumns)}
    /\ result = NoResult
    /\ store = NoFile

Next ==
    \/ AddRawRow
    \/ AddDailyRow
    \/ CalcWorkHours
    \/ BuildDailySummary
    \/ BuildWeeklySummary
    \/ BuildMonthlySummary

Spec == Init /\ [][Next]_vars

\* a caller saves daily summaries and builds summaries from what it loads
AddStoredRow == AddRowFrom(StoredRows, MaxStoredRows)

\* build_daily_summary applied to the frame the last call returned
BuildDailySummaryAgain ==
    /\ result.op \in {"build_daily_summary", "build_daily_summary again"}
    /\ result.out.ok
    /\ result' = [op |-> "build_daily_summary again",
                  out |-> build_daily_summary(result.out.frame)]
    /\ UNCHANGED <<frame, store>>

\* save_daily_records of the frame build_daily_summary returned
SaveDailyRecords ==
    /\ result.op = "build_daily_summary" /\ result.out.ok
    /\ save_daily_records(result.out.frame).ok
    /\ store' = save_daily_records(result.out.frame).val
    /\ UNCHANGED <<frame, result>>

\* build_daily_summary(load_daily_records())
BuildDailySummaryOfFile ==
    /\ result' = [op |-> "build_daily_summary of file",
                  out |-> Bind(load_daily_records(store), LAMBDA loaded :
                            IF loaded.ok THEN build_daily_summary(loaded.frame) ELSE loaded)]
    /\ UNCHANGED <<frame, store>>

InitDaily ==
    /\ frame = DataFrame(<<>>, NormalizedColumns)
    /\ result = NoResult
    /\ store = NoFile

NextDaily ==
    \/ AddStoredRow
    \/ BuildDailySummary
    \/ BuildDailySummaryAgain
    \/ SaveDailyRecords
    \/ BuildDailySummaryOfFile

SpecDaily == InitDaily /\ [][NextDaily]_vars

\* the user records single entries and imports CSV files
RecordSingle ==
    \E typed \in CsvRows : \E answers \in BreakAnswers(typed) :
        /\ Len(store.lines) < MaxStoredRows
        /\ \E handled \in {_handle_record_single(typed, answers, store)} :
            /\ frame' = handled.batch
            /\ result' = [op |-> "_handle_record_single", out |-> handled.out]
            /\ store' = handled.file

ImportCsv ==
    \E csv \in CsvFiles :
        /\ Len(store.lines) < MaxStoredRows
        /\ \E handled \in {_handle_import_csv(csv, store)} :
            /\ frame' = handled.batch
            /\ result' = [op |-> "_handle_import_csv", out |-> handled.out]
            /\ store' = handled.file

InitStore ==
    /\ frame = DataFrame(<<>>, NoColumns)
    /\ result = NoResult
    /\ store = NoFile

NextStore == RecordSingle \/ ImportCsv

SpecStore == InitStore /\ [][NextStore]_vars

(***************************************************************************)
(* Properties                                                              *)
(***************************************************************************)
\* the last call was op / was op and returned
Called(op) == result.op = op
Accepted(op) == result.op = op /\ result.out.ok

\* the rows the last call returned, and the input row each was made from
OutRows == result.out.frame.rows
InRowOf(i) == frame.rows[result.out.order[i]]

\* the text of a field with its surrounding blanks removed
Field(row, name) == Strip(StrOf(row[name]))

\* minutes from one time of day to the next moment the clock shows another
ElapsedMinutes(tin, tout) ==
    IF tout.h * MinutesPerHour + tout.m > tin.h * MinutesPerHour + tin.m
    THEN (tout.h - tin.h) * MinutesPerHour + (tout.m - tin.m)
    ELSE MinutesPerDay + (tout.h - tin.h) * MinutesPerHour + (tout.m - tin.m)

\* interval hours - sum of the normalized breaks + overtime, to 2 decimals
ExpectedWorkHours(row) ==
    Round2(FAdd(FSub(Fin(ElapsedMinutes(parse_time(StrOf(row["clock_in"])).val,
                                        parse_time(StrOf(row["clock_out"])).val)
                         * UnitsPerMinute),
                     FSum(_flatten_breaks(row["breaks"]).val)),
                _ensure_float(row["ot_hours"]).val))

\* a row with these clock texts, this one break and this overtime
IsShift(row, clock_in, clock_out, break_hours, ot) ==
    /\ Field(row, "clock_in") = clock_in
    /\ Field(row, "clock_out") = clock_out
    /\ row["breaks"] = PyNum(Hours(break_hours))
    /\ row["ot_hours"] = PyNum(Hours(ot))

\* C1: every record calc_work_hours returns has work_hours equal to the
\* elapsed clock interval minus the sum of the row's normalized breaks plus
\* its overtime, rounded to 2 decimals; 08:00-17:00 with break 1 and overtime
\* 2 gives 10.0 and 08:30-18:00 with break 1 and overtime 0 gives 8.5
C1_WorkHoursFormula ==
    Accepted("calc_work_hours") =>
        \A i \in 1..Len(OutRows) :
            /\ OutRows[i]["work_hours"] = PyNum(ExpectedWorkHours(InRowOf(i)))
            /\ IsShift(InRowOf(i), HM(8, 0), HM(17, 0), 1, 2)
                    => OutRows[i]["work_hours"] = PyNum(Hours(10))
            /\ IsShift(InRowOf(i), HM(8, 30), HM(18, 0), 1, 0)
                    => OutRows[i]["work_hours"] = PyNum(Milli(8500))

\* C1 happens: a returned record of the 08:30-18:00 shift, with 8.5 hours
C1_Witness ==
    /\ Accepted("calc_work_hours")
    /\ \E i \in 1..Len(OutRows) :
        /\ IsShift(InRowOf(i), HM(8, 30), HM(18, 0), 1, 0)
        /\ OutRows[i]["work_hours"] = PyNum(Milli(8500))

\* 0 <= x <= 16 on floats: no NaN and no infinity is in the range
InWorkRange(x) == x.k = "fin" /\ x.u >= 0 /\ x.u <= MaxNetHours * UnitsPerHour

\* C2: every record calc_work_hours returns has 0 <= work_hours <= 16
C2_WorkHoursInRange ==
    Accepted("calc_work_hours") =>
        \A i \in 1..Len(OutRows) : InWorkRange(ValueOf(OutRows[i]["work_hours"]))

\* the start and end of a row's shift as normalize_interval is given them
ShiftStart(row) == Combine(parse_date(StrOf(row["date"])).val,
                           parse_time(StrOf(row["clock_in"])).val)
ShiftEnd(row) == Combine(parse_date(StrOf(row["date"])).val,
                         parse_time(StrOf(row["clock_out"])).val)

\* the row's date and clock texts parse
HasShift(row) ==
    /\ parse_date(StrOf(row["date"])).ok
    /\ parse_time(StrOf(row["clock_in"])).ok
    /\ parse_time(StrOf(row["clock_out"])).ok

\* the day after the row's date is a date (it is not date.max)
HasNextDay(row) == parse_date(StrOf(row["date"])).val < MaxOrdinal

\* what C3 says of the interval of one start and end
ResolvedAsClaimed(start, end, interval) ==
    /\ interval.start = start
    /\ interval.end.min = end.min
    /\ interval.end.ord = IF end.min <= start.min THEN end.ord + 1 ELSE end.ord
    /\ DtLe(interval.start, interval.end)
    /\ DtDiffMinutes(interval.start, interval.end) > 0
    /\ DtDiffMinutes(interval.start, interval.end) <= MinutesPerDay
    /\ end.min = start.min => DtDiffMinutes(interval.start, interval.end) = MinutesPerDay

IsOutOfRangeTime(text) ==
    /\ Len(Split(text, {":"})) = 2
    /\ IsDigits(Split(text, {":"})[1]) /\ IsDigits(Split(text, {":"})[2])
    /\ DecVal(Split(text, {":"})[1]) > 23 \/ DecVal(Split(text, {":"})[2]) > 59

HasOutOfRangeTime(row) ==
    IsOutOfRangeTime(Field(row, "clock_in")) \/ IsOutOfRangeTime(Field(row, "clock_out"))

\* C4: a call of calc_work_hours on a batch with a row whose clock_in or
\* clock_out is out of range fails with a ValidationError
C4_OutOfRangeTimeFails ==
    (Called("calc_work_hours") /\ \E i \in 1..Len(frame.rows) : HasOutOfRangeTime(frame.rows[i]))
        => (~result.out.ok /\ result.out.kind = ValidationError)

\* C5: when the frame lacks required columns calc_work_hours fails with the
\* validation error of the missing columns, which names every one of them and
\* comes from no row, whatever the rows are
C5_MissingColumnsFirst ==
    (Called("calc_work_hours") /\ ~(RequiredColumns \subseteq frame.columns)) =>
        /\ ~result.out.ok
        /\ result.out.kind = ValidationError
        /\ result.out.msg = "Missing required columns"
        /\ result.out.missing = {c \in RequiredColumns : c \notin frame.columns}
        /\ result.out.at = 0
        /\ OutRows = <<>>

\* C5 happens: a batch without breaks and name, one of its rows with the
\* clock_in 25:00, fails naming both columns
C5_Witness ==
    /\ Called("calc_work_hours")
    /\ \E i \in 1..Len(frame.rows) : HasOutOfRangeTime(frame.rows[i])
    /\ result.out.kind = ValidationError
    /\ result.out.missing = {"breaks", "name"}
    /\ result.out.at = 0

\* the input rows that calc_work_hours rejects when it comes to them
InvalidRows == {i \in 1..Len(frame.rows) : ~CalcRow(frame.rows[i]).ok}
FirstInvalid == CHOOSE i \in InvalidRows : \A j \in InvalidRows : i <= j

InputColumns(op) == IF op = "calc_work_hours" THEN RequiredColumns ELSE NormalizedColumns
FixedColumns(op) ==
    CASE op = "build_weekly_summary" -> WeeklyColumns
      [] op = "build_monthly_summary" -> MonthlyColumns
      [] OTHER -> NormalizedColumns

\* the call returned no rows under the fixed columns of its operation
ReturnedEmpty ==
    /\ result.out.ok
    /\ OutRows = <<>>
    /\ result.out.frame.columns = FixedColumns(result.op)

\* C7 as stated: every call on a frame without rows returns an empty frame
\* with the operation's fixed columns
C7_EmptyNeverFails ==
    (~Called("none") /\ frame.rows = <<>>) => ReturnedEmpty

\* C7: a call on a frame without rows that has the columns the operation
\* reads returns an empty frame with the operation's fixed columns; on one
\* that lacks some of them it fails with the validation error of the missing
\* columns
C7_EmptyWithColumns ==
    (~Called("none") /\ frame.rows = <<>>) =>
        IF InputColumns(result.op) \subseteq frame.columns
        THEN ReturnedEmpty
        ELSE /\ ~result.out.ok
             /\ result.out.kind = ValidationError
             /\ result.out.missing = InputColumns(result.op) \ frame.columns

\* C7 happens: calc_work_hours on the empty frame of the raw columns returns
\* the empty frame of the normalized columns
C7_Witness ==
    /\ Called("calc_work_hours")
    /\ frame.rows = <<>> /\ frame.columns = RawColumns
    /\ ReturnedEmpty
    /\ result.out.frame.columns = NormalizedColumns

\* a record is not after another in (date, employee_id) order; the two tie
NotAfter(a, b) ==
    \/ ValueOf(a["date"]) < ValueOf(b["date"])
    \/ /\ ValueOf(a["date"]) = ValueOf(b["date"])
       /\ ~SeqLt(StrKey(ValueOf(b["employee_id"])), StrKey(ValueOf(a["employee_id"])))
Tie(a, b) == a["date"] = b["date"] /\ a["employee_id"] = b["employee_id"]

\* C8: calc_work_hours returns one record per input row, each the record of
\* its row, in ascending (date, employee_id) order with the records that tie
\* in the order of their input rows
C8_SortedStable ==
    Accepted("calc_work_hours") =>
        /\ Len(OutRows) = Len(frame.rows)
        /\ {result.out.order[i] : i \in 1..Len(OutRows)} = 1..Len(frame.rows)
        /\ \A i \in 1..Len(OutRows) : OutRows[i] = CalcRow(InRowOf(i)).val
        /\ \A i, j \in 1..Len(OutRows) :
            i < j => /\ NotAfter(OutRows[i], OutRows[j])
                     /\ Tie(OutRows[i], OutRows[j])
                            => result.out.order[i] < result.out.order[j]

\* C8 happens: two rows given latest first are returned earliest first
C8_Witness ==
    /\ Accepted("calc_work_hours")
    /\ Len(OutRows) = 2
    /\ result.out.order = <<2, 1>>
    /\ ValueOf(OutRows[1]["date"]) < ValueOf(OutRows[2]["date"])

\* the calendar date of a daily record
DayOf(row) == DayValue(row["date"]).val

\* the Monday on or before a date
MondayOnOrBefore(d) == CHOOSE m \in (d - 6)..d : Weekday(m) = 0

\* the weekly key of a daily record, and of a weekly row
WeekKeyOf(row) ==
    <<MondayOnOrBefore(DayOf(row)), MondayOnOrBefore(DayOf(row)) + 6,
      Field(row, "employee_id"), Field(row, "name")>>
WeeklyRowKey(row) ==
    <<ValueOf(row["week_start"]), ValueOf(row["week_end"]),
      ValueOf(row["employee_id"]), ValueOf(row["name"])>>

\* the input records of a weekly key
RecordsOf(key) == {i \in 1..Len(frame.rows) : WeekKeyOf(frame.rows[i]) = key}

RECURSIVE SumOf(_, _, _)
\* the sum of a field over the first n input records that are among members
SumOf(field, members, n) ==
    IF n = 0 THEN Fin(0)
    ELSE IF n \in members
    THEN FAdd(SumOf(field, members, n - 1), ValueOf(frame.rows[n][field]))
    ELSE SumOf(field, members, n - 1)

\* C9: build_weekly_summary returns exactly one row for each key (week_start,
\* week_end, employee_id, name) of its input records; the row's
\* work_hours_total and ot_total are the sums of work_hours and ot_hours over
\* the records of the key, and its days_present is the number of distinct
\* dates among them
C9_WeeklyRows ==
    Accepted("build_weekly_summary") =>
        /\ Len(OutRows) = Cardinality({WeekKeyOf(frame.rows[i]) : i \in 1..Len(frame.rows)})
        /\ \A i \in 1..Len(frame.rows) :
            \E j \in 1..Len(OutRows) : WeeklyRowKey(OutRows[j]) = WeekKeyOf(frame.rows[i])
        /\ \A j \in 1..Len(OutRows) :
            /\ RecordsOf(WeeklyRowKey(OutRows[j])) # {}
            /\ OutRows[j]["work_hours_total"] =
                  PyNum(SumOf("work_hours", RecordsOf(WeeklyRowKey(OutRows[j])), Len(frame.rows)))
            /\ OutRows[j]["ot_total"] =
                  PyNum(SumOf("ot_hours", RecordsOf(WeeklyRowKey(OutRows[j])), Len(frame.rows)))
            /\ OutRows[j]["days_present"] =
                  PyInt(Cardinality({DayOf(frame.rows[i]) :
                                        i \in RecordsOf(WeeklyRowKey(OutRows[j]))}))

\* C9 happens: two records of one employee on two dates of a week give one
\* row with both records' hours and two days
C9_Witness ==
    /\ Accepted("build_weekly_summary")
    /\ Len(frame.rows) = 2 /\ Len(OutRows) = 1
    /\ DayOf(frame.rows[1]) # DayOf(frame.rows[2])
    /\ OutRows[1]["days_present"] = PyInt(2)
    /\ OutRows[1]["work_hours_total"] =
          PyNum(FAdd(ValueOf(frame.rows[1]["work_hours"]), ValueOf(frame.rows[2]["work_hours"])))

\* the weekly row a daily record is counted in
BucketOf(row) ==
    CHOOSE j \in 1..Len(OutRows) :
        /\ ValueOf(OutRows[j]["week_start"]) <= DayOf(row)
        /\ DayOf(row) <= ValueOf(OutRows[j]["week_end"])
        /\ ValueOf(OutRows[j]["employee_id"]) = Field(row, "employee_id")
        /\ ValueOf(OutRows[j]["name"]) = Field(row, "name")

\* C10: every record that build_weekly_summary aggregates is counted in a row
\* whose week_start is the Monday on or before the record's date (the date
\* minus its weekday) and whose week_end is the Sunday 6 days later, with
\* week_start <= date <= week_end; Sunday 07/07/2024 falls in the week of
\* Monday 01/07/2024; every weekly row has 1 <= days_present <= 7
C10_WeekBucket ==
    Accepted("build_weekly_summary") =>
        /\ \A i \in 1..Len(frame.rows) :
            /\ \E j \in 1..Len(OutRows) : WeeklyRowKey(OutRows[j]) = WeekKeyOf(frame.rows[i])
            /\ Weekday(ValueOf(OutRows[BucketOf(frame.rows[i])]["week_start"])) = 0
            /\ ValueOf(OutRows[BucketOf(frame.rows[i])]["week_start"])
                  = DayOf(frame.rows[i]) - Weekday(DayOf(frame.rows[i]))
            /\ ValueOf(OutRows[BucketOf(frame.rows[i])]["week_end"])
                  = ValueOf(OutRows[BucketOf(frame.rows[i])]["week_start"]) + 6
            /\ Weekday(ValueOf(OutRows[BucketOf(frame.rows[i])]["week_end"])) = 6
            /\ ValueOf(OutRows[BucketOf(frame.rows[i])]["week_start"]) <= DayOf(frame.rows[i])
            /\ DayOf(frame.rows[i]) <= ValueOf(OutRows[BucketOf(frame.rows[i])]["week_end"])
            /\ DayOf(frame.rows[i]) = Ymd2Ord(2024, 7, 7) =>
                  ValueOf(OutRows[BucketOf(frame.rows[i])]["week_start"]) = Ymd2Ord(2024, 7, 1)
        /\ \A j \in 1..Len(OutRows) :
            /\ ValueOf(OutRows[j]["days_present"]) >= 1
            /\ ValueOf(OutRows[j]["days_present"]) <= 7

\* C10 happens: a record of Thursday 01/08/2024 is counted in the week from
\* Monday 29/07/2024 to Sunday 04/08/2024
C10_Witness ==
    /\ Accepted("build_weekly_summary")
    /\ \E i \in 1..Len(frame.rows) :
        /\ DayOf(frame.rows[i]) = Ymd2Ord(2024, 8, 1)
        /\ ValueOf(OutRows[BucketOf(frame.rows[i])]["week_start"]) = Ymd2Ord(2024, 7, 29)
        /\ ValueOf(OutRows[BucketOf(frame.rows[i])]["week_end"]) = Ymd2Ord(2024, 8, 4)

\* the year and month a date lies in, found from the first days of the months
YearMonthOf(d) ==
    CHOOSE ym \in ((d \div 366)..(d \div 365 + 1)) \X (1..12) :
        /\ Ymd2Ord(ym[1], ym[2], 1) <= d
        /\ d < Ymd2Ord(ym[1], ym[2], 1) + DaysInMonth(ym[1], ym[2])

\* "YYYY-MM" of a year and month
MonthText(ym) == Pad2(ym[1] \div 100) \o Pad2(ym[1] % 100) \o <<"-">> \o Pad2(ym[2])

\* the monthly key of a daily record, and of a monthly row
MonthKeyOf(row) ==
    <<MonthText(YearMonthOf(DayOf(row))), Field(row, "employee_id"), Field(row, "name")>>
MonthlyRowKey(row) ==
    <<ValueOf(row["month"]), ValueOf(row["employee_id"]), ValueOf(row["name"])>>

\* the input records of a monthly key
MonthRecordsOf(key) == {i \in 1..Len(frame.rows) : MonthKeyOf(frame.rows[i]) = key}

\* a monthly row is not after another in (month, employee_id) order
MonthNotAfter(a, b) ==
    \/ SeqLt(StrKey(ValueOf(a["month"])), StrKey(ValueOf(b["month"])))
    \/ /\ a["month"] = b["month"]
       /\ ~SeqLt(StrKey(ValueOf(b["employee_id"])), StrKey(ValueOf(a["employee_id"])))

\* C11: build_monthly_summary returns exactly one row for each distinct
\* (year-month of date, employee_id, name) of its input records; the row's
\* work_hours_total and ot_total are the sums of work_hours and ot_hours over
\* the records of the group, its days_present is the number of distinct dates
\* among them, and the rows are in ascending (month, employee_id) order
C11_MonthlyRows ==
    Accepted("build_monthly_summary") =>
        /\ Len(OutRows) = Cardinality({MonthKeyOf(frame.rows[i]) : i \in 1..Len(frame.rows)})
        /\ \A i \in 1..Len(frame.rows) :
            \E j \in 1..Len(OutRows) : MonthlyRowKey(OutRows[j]) = MonthKeyOf(frame.rows[i])
        /\ \A j \in 1..Len(OutRows) :
            /\ MonthRecordsOf(MonthlyRowKey(OutRows[j])) # {}
            /\ OutRows[j]["work_hours_total"] =
                  PyNum(SumOf("work_hours", MonthRecordsOf(MonthlyRowKey(OutRows[j])),
                              Len(frame.rows)))
            /\ OutRows[j]["ot_total"] =
                  PyNum(SumOf("ot_hours", MonthRecordsOf(MonthlyRowKey(OutRows[j])),
                              Len(frame.rows)))
            /\ OutRows[j]["days_present"] =
                  PyInt(Cardinality({DayOf(frame.rows[i]) :
                                        i \in MonthRecordsOf(MonthlyRowKey(OutRows[j]))}))
        /\ \A i, j \in 1..Len(OutRows) : i < j => MonthNotAfter(OutRows[i], OutRows[j])

\* C11 happens: the records of one employee on 01/07/2024 and 31/07/2024, two
\* weeks of one month, give one row of 2024-07 with both records' hours and
\* two days
C11_Witness ==
    /\ Accepted("build_monthly_summary")
    /\ Len(frame.rows) = 2 /\ Len(OutRows) = 1
    /\ {DayOf(frame.rows[1]), DayOf(frame.rows[2])} = {Ymd2Ord(2024, 7, 1), Ymd2Ord(2024, 7, 31)}
    /\ OutRows[1]["month"] = PyStr(<<"2", "0", "2", "4", "-", "0", "7">>)
    /\ OutRows[1]["days_present"] = PyInt(2)
    /\ OutRows[1]["work_hours_total"] = PyNum(Milli(17670))
    /\ OutRows[1]["ot_total"] = PyNum(Milli(1500))

\* what build_daily_summary returns for the frame, and the file
\* save_daily_records writes from it
FirstDaily == build_daily_summary(frame)
FileOfFirstDaily == save_daily_records(FirstDaily.frame)

\* build_daily_summary returns the rows of its first application when it is
\* applied to its own output
C12_AgainSameRows ==
    Called("build_daily_summary again") =>
        (result.out.ok /\ OutRows = FirstDaily.frame.rows)

\* C12: build_daily_summary applied to its own output, also after that output
\* was written with save_daily_records and read back with load_daily_records,
\* returns the same rows in the same order as its first application
C12_DailyIdempotent ==
    /\ C12_AgainSameRows
    /\ (/\ Called("build_daily_summary of file")
        /\ FirstDaily.ok /\ FileOfFirstDaily.ok
        /\ store = FileOfFirstDaily.val)
            => (result.out.ok /\ OutRows = FirstDaily.frame.rows)

\* x >= 0 on floats: NaN is not
NonNegative(x) == x.k = "inf" \/ (x.k = "fin" /\ x.u >= 0)

\* the elements of a break value: the number itself, the elements of a
\* collection, the decoded elements of a text
BreakElements(value) ==
    CASE TypeOf(value) \in {"num", "bool"} -> <<value>>
      [] TypeOf(value) = "list" -> ValueOf(value)
      [] TypeOf(value) = "str" /\ Strip(ValueOf(value)) # <<>> -> ParsedBreaks(Strip(ValueOf(value)))
      [] OTHER -> <<>>

\* the number an element reads as (texts with their blanks dropped)
ElementNumber(e) == IF TypeOf(e) = "str" THEN ParseFloat(ValueOf(e)) ELSE
                    IF TypeOf(e) \in {"num", "bool"} THEN [ok |-> TRUE, val |-> FloatOf(e).val]
                    ELSE [ok |-> FALSE, val |-> NaN]

\* some element of the break value reads as a negative number
HasNegativeBreak(value) ==
    \E k \in 1..Len(BreakElements(value)) :
        /\ ElementNumber(BreakElements(value)[k]).ok
        /\ FLt(ElementNumber(BreakElements(value)[k]).val, Fin(0))

\* the break values of the rows calc_work_hours was given
BreaksGiven ==
    IF Called("calc_work_hours") /\ "breaks" \in frame.columns
    THEN {frame.rows[i]["breaks"] : i \in 1..Len(frame.rows)} ELSE {}

\* C13: break normalization fails with a validation error when an element of
\* the break value is negative; whenever it succeeds every element of its
\* list is >= 0; an absent or blank value gives the empty list and a single
\* number a list of one element
C13_BreaksNonNegative ==
    \A value \in BreaksGiven :
        /\ (HasNegativeBreak(value) /\ \A k \in 1..Len(BreakElements(value)) :
                                            ElementNumber(BreakElements(value)[k]).ok)
                => (~_flatten_breaks(value).ok /\ _flatten_breaks(value).kind = ValidationError)
        /\ _flatten_breaks(value).ok =>
                \A k \in 1..Len(_flatten_breaks(value).val) :
                    NonNegative(_flatten_breaks(value).val[k])
        /\ (value = PyNone \/ (TypeOf(value) = "str" /\ Strip(ValueOf(value)) = <<>>))
                => _flatten_breaks(value) = Return(<<>>)
        /\ (TypeOf(value) = "num" /\ NonNegative(ValueOf(value)))
                => _flatten_breaks(value) = Return(<<ValueOf(value)>>)

\* a break value of no accepted representation: neither absent, a number, a
\* text nor a collection, or with an element that does not read as a number
IsUnreadableBreak(value) ==
    \/ TypeOf(value) \notin {"None", "num", "bool", "str", "list"}
    \/ \E k \in 1..Len(BreakElements(value)) : ~ElementNumber(BreakElements(value)[k]).ok

\* C14: a break value that is not an accepted representation makes
\* _flatten_breaks, and the calc_work_hours call it is part of, fail with a
\* ValidationError: no other kind of error and no record
C14_UnreadableBreakFails ==
    \A value \in BreaksGiven :
        IsUnreadableBreak(value) =>
            /\ ~_flatten_breaks(value).ok
            /\ _flatten_breaks(value).kind = ValidationError
            /\ ~result.out.ok
            /\ result.out.kind = ValidationError

\* a text of the strict pattern HH:MM, hour 00-23 and minute 00-59
IsStrictHHMM(text) ==
    /\ Len(text) = 5
    /\ text[3] = ":"
    /\ IsDigits(SubSeq(text, 1, 2)) /\ DecVal(SubSeq(text, 1, 2)) <= 23
    /\ IsDigits(SubSeq(text, 4, 5)) /\ DecVal(SubSeq(text, 4, 5)) <= 59

\* the clock texts of the rows calc_work_hours was given
ClockTextsGiven ==
    IF Called("calc_work_hours") /\ {"clock_in", "clock_out"} \subseteq frame.columns
    THEN {StrOf(frame.rows[i][c]) : i \in 1..Len(frame.rows), c \in {"clock_in", "clock_out"}}
    ELSE {}

\* C15: parse_time accepts exactly the texts of the strict pattern HH:MM and
\* fails with a validation error on every other text (surrounding blanks, a
\* single-digit hour or minute), so no record is returned for a row with such
\* a clock text
C15_StrictTime ==
    /\ \A text \in ClockTextsGiven :
        IF IsStrictHHMM(text) THEN parse_time(text).ok
        ELSE ~parse_time(text).ok /\ parse_time(text).kind = ValidationError
    /\ (ClockTextsGiven # {} /\ \E text \in ClockTextsGiven : ~IsStrictHHMM(text))
            => ~result.out.ok

\* what an operation returns for a frame
OutcomeOf(op, df) ==
    CASE op = "calc_work_hours" -> calc_work_hours(df)
      [] op = "build_daily_summary" -> build_daily_summary(df)
      [] op = "build_weekly_summary" -> build_weekly_summary(df)
      [] op = "build_monthly_summary" -> build_monthly_summary(df)

Orderings(n) == {p \in [1..n -> 1..n] : \A i, j \in 1..n : p[i] = p[j] => i = j}
Reordered(df, p) == [df EXCEPT !.rows = [i \in 1..Len(df.rows) |-> df.rows[p[i]]]]

\* C18: what build_weekly_summary and build_monthly_summary return depends
\* only on which records they are given, not on the order of the records: for
\* every other ordering of the same records they return the same sequence of
\* rows, the rows that tie on the sort key and differ in name included
C18_OrderIndependent ==
    (Accepted("build_weekly_summary") \/ Accepted("build_monthly_summary")) =>
        \A p \in Orderings(Len(frame.rows)) :
            /\ OutcomeOf(result.op, Reordered(frame, p)).ok
            /\ OutcomeOf(result.op, Reordered(frame, p)).frame.rows = OutRows

\* the last step was a handler's
Handler == {"_handle_record_single", "_handle_import_csv"}

\* the records load_daily_records reads from a file
RecordsIn(file) == load_daily_records(file).frame.rows

\* C17: a handler leaves the daily-record file exactly as it was when
\* load_csv_records or calc_work_hours fails for the new batch; when they
\* succeed the file's records are the previous records, as they were and in
\* their order, followed by the records calc_work_hours made of the batch
C17_StoreAppendOnly ==
    [][result'.op \in Handler =>
        IF ~calc_work_hours(frame').ok THEN store' = store
        ELSE /\ load_daily_records(store).ok
             /\ load_daily_records(store').ok
             /\ RecordsIn(store') =
                   RecordsIn(store)
                   \o RecordsIn(save_daily_records(calc_work_hours(frame').frame).val)]_vars

====
